---- MODULE Spec2Model ----
(***************************************************************************)
(* Model of src/main.py: the rooftop rainwater-harvesting calculator.      *)
(*                                                                         *)
(* The program is a Streamlit script.  Every interaction with a widget     *)
(* stores the widget's new value and re-runs the whole script from top to  *)
(* bottom; the script reads the widgets and recomputes every result.       *)
(* The state is the loaded dataset, the widgets' values and the script's   *)
(* globals after the last run.                                             *)
(*                                                                         *)
(* Numbers.  The script computes in floating point.  Here a number is an   *)
(* exact fraction <<n, d>> in lowest terms (d > 0), and <<0, 0>> is NaN    *)
(* (pandas' mean of no values, a missing CSV cell).  Rounding of IEEE      *)
(* doubles is not modelled.  math.pi is kept as a symbolic factor: a       *)
(* capacity is [coef |-> fraction, pi |-> 0 or 1], meaning coef * pi^pi.   *)
(***************************************************************************)
EXTENDS Integers, Sequences, FiniteSets, TLC

VARIABLES
    df,                     \* the loaded dataset: a sequence of rows
    city, area, surface_type, c, first_flush, efficiency,
    structure_type, dims,   \* the widgets' values
    globals,                \* the script's global names after the last run
    report,                 \* what the last run handed to the PDF: {} or {summary}
    error                   \* the exception that ended the last run, or "None"

inputs == <<city, area, surface_type, c, first_flush, efficiency,
            structure_type, dims>>

vars == <<df, inputs, globals, report, error>>

----------------------------------------------------------------------------
(* Arithmetic on exact fractions, NaN included.                            *)

NaN == <<0, 0>>

IsNaN(x) == x[2] = 0

Abs(n) == IF n < 0 THEN -n ELSE n

RECURSIVE GCD(_, _)
GCD(a, b) == IF b = 0 THEN a ELSE GCD(b, a % b)

Norm(n, d) ==
    IF d = 0 THEN NaN
    ELSE LET g == GCD(Abs(n), d) IN <<n \div g, d \div g>>

Num(n) == <<n, 1>>

Frac(n, d) == Norm(n, d)

\* a * b; NaN if either is NaN
Mul(a, b) ==
    IF IsNaN(a) \/ IsNaN(b) THEN NaN
    ELSE LET g1 == GCD(Abs(a[1]), b[2])
             g2 == GCD(Abs(b[1]), a[2])
         IN  Norm((a[1] \div g1) * (b[1] \div g2), (a[2] \div g2) * (b[2] \div g1))

\* a / k for an integer k > 0
DivInt(a, k) == Mul(a, Frac(1, k))

\* a + b and a - b; NaN if either is NaN
Add(a, b) ==
    IF IsNaN(a) \/ IsNaN(b) THEN NaN
    ELSE LET g == GCD(a[2], b[2])
             l == (a[2] \div g) * b[2]
         IN  Norm(a[1] * (l \div a[2]) + b[1] * (l \div b[2]), l)

Sub(a, b) == Add(a, <<-b[1], b[2]>>)

\* a > b as Python compares floats: False when either is NaN
Gt(a, b) ==
    /\ ~IsNaN(a)
    /\ ~IsNaN(b)
    /\ LET g == GCD(a[2], b[2])
       IN  a[1] * (b[2] \div g) > b[1] * (a[2] \div g)

\* Python's max(a, b): a, unless b > a
PyMax(a, b) == IF Gt(b, a) THEN b ELSE a

----------------------------------------------------------------------------
(* The dataset: rainfall-in-india-1901-2015.csv as read by pandas.         *)
(* A row maps the column names to cells.  A rainfall cell is a fraction,   *)
(* NaN when the CSV cell is empty.  A raw SUBDIVISION cell is the name     *)
(* with the number of blanks before and after it.                          *)

YearHi == 2015

\* how many years, ending at YearHi, the rows of the varied region span
YearSpan == 11

YearLo == YearHi - YearSpan + 1

Seasons == {"Jan-Feb", "Mar-May", "Jun-Sep", "Oct-Dec"}

Raw(text, lead, trail) == [text |-> text, lead |-> lead, trail |-> trail]

\* one CSV row; the seasonal cells split the annual total 1 : 3 : 12 : 4
CsvRow(sub, year, annual, janfeb) ==
    ("SUBDIVISION" :> sub) @@ ("YEAR" :> year) @@ ("ANNUAL" :> annual)
    @@ ("Jan-Feb" :> janfeb)
    @@ ("Mar-May" :> Mul(annual, Frac(3, 20)))
    @@ ("Jun-Sep" :> Mul(annual, Frac(12, 20)))
    @@ ("Oct-Dec" :> Mul(annual, Frac(4, 20)))

FullRow(sub, year, mm) == CsvRow(sub, year, Num(mm), Frac(mm, 20))

\* 11 consecutive years, 2005..2015
AndamanRows ==
    [i \in 1..11 |-> FullRow(Raw("ANDAMAN & NICOBAR ISLANDS", 0, 0), 2004 + i,
                             1000 + 20 * (i - 1))]

\* 6 consecutive years, 2010..2015, the name followed by a blank
WestBengalRows ==
    [i \in 1..6 |-> FullRow(Raw("WEST BENGAL", 0, 1), 2009 + i, 1000)]

\* the varied region: the annual cell is empty every fifth year, the
\* Jan-Feb cell every fourth; odd years carry blanks around the name
KeralaRow(y) ==
    LET mm == 40 * (y - 2000)
    IN  CsvRow(Raw("KERALA", y % 2, y % 2), y,
               IF y % 5 = 0 THEN NaN ELSE Num(mm),
               IF y % 4 = 0 THEN NaN ELSE Frac(mm, 20))

KeralaRows(ys) ==
    LET all == [i \in 1..YearSpan |-> KeralaRow(YearLo + i - 1)]
        Keep(r) == r["YEAR"] \in ys
    IN  SelectSeq(all, Keep)

\* a single row, its rainfall cells empty
LakshadweepRows == << CsvRow(Raw("LAKSHADWEEP", 0, 0), YearHi, NaN, NaN) >>

\* the file's rows when the varied region has rows for the years ys
CsvFile(ys) ==
    AndamanRows \o KeralaRows(ys) \o WestBengalRows \o LakshadweepRows

\* the varied region's years in the sample file: two years of the last
\* decade are missing
SampleYears == (YearLo .. YearHi) \ {2009, 2012}

\* str.strip()
Strip(raw) == raw.text

\* load_rainfall_data: read the file, strip the SUBDIVISION column
load_rainfall_data(ys) ==
    LET csv == CsvFile(ys)
    IN  [i \in 1..Len(csv) |->
            [col \in DOMAIN csv[i] |->
                IF col = "SUBDIVISION" THEN Strip(csv[i][col]) ELSE csv[i][col]]]

\* df["SUBDIVISION"].unique(): the names in order of first appearance
RECURSIVE UniqueFrom(_, _, _)
UniqueFrom(rows, i, seen) ==
    IF i > Len(rows) THEN seen
    ELSE LET name == rows[i]["SUBDIVISION"]
         IN  IF \E j \in 1..Len(seen) : seen[j] = name
             THEN UniqueFrom(rows, i + 1, seen)
             ELSE UniqueFrom(rows, i + 1, Append(seen, name))

Unique(rows) == UniqueFrom(rows, 1, <<>>)

----------------------------------------------------------------------------
(* Region statistic (lines 52-62).                                         *)

WindowYears == 10

CityData(rows, region) ==
    LET Is(r) == r["SUBDIVISION"] = region IN SelectSeq(rows, Is)

\* city_data["YEAR"].max()
RECURSIVE MaxYear(_)
MaxYear(rows) ==
    IF Len(rows) = 1 THEN rows[1]["YEAR"]
    ELSE LET m == MaxYear(Tail(rows))
         IN  IF rows[1]["YEAR"] > m THEN rows[1]["YEAR"] ELSE m

\* the n greatest of the years Y
NewestOf(Y, n) == {y \in Y : Cardinality({z \in Y : z > y}) < n}

\* as RecentYears, the bound of the window included: eleven years
RecentYearsInclusive(city_data) ==
    LET newest    == MaxYear(city_data)
        Recent(r) == r["YEAR"] >= newest - WindowYears
    IN  SelectSeq(city_data, Recent)

\* as RecentYears, taking the ten most recent years that have rows
RecentYearsDistinct(city_data) ==
    LET years     == {city_data[i]["YEAR"] : i \in 1..Len(city_data)}
        Recent(r) == r["YEAR"] \in NewestOf(years, WindowYears)
    IN  SelectSeq(city_data, Recent)

\* city_data[city_data["YEAR"] > city_data["YEAR"].max() - 10]
RecentYears(city_data) ==
    LET newest    == MaxYear(city_data)
        Recent(r) == r["YEAR"] > newest - WindowYears
    IN  SelectSeq(city_data, Recent)

RECURSIVE ColumnSum(_, _)
ColumnSum(rows, col) ==
    IF rows = <<>> THEN Num(0)
    ELSE IF IsNaN(rows[1][col]) THEN ColumnSum(Tail(rows), col)
    ELSE Add(rows[1][col], ColumnSum(Tail(rows), col))

RECURSIVE ColumnCount(_, _)
ColumnCount(rows, col) ==
    IF rows = <<>> THEN 0
    ELSE (IF IsNaN(rows[1][col]) THEN 0 ELSE 1) + ColumnCount(Tail(rows), col)

\* Series.mean(): the mean of the cells that are not NaN, NaN if there are none
ColumnMean(rows, col) ==
    LET n == ColumnCount(rows, col)
    IN  IF n = 0 THEN NaN ELSE DivInt(ColumnSum(rows, col), n)

----------------------------------------------------------------------------
(* Harvest calculation, feasibility, structure sizing, groundwater lookup  *)
(* and cost estimate (lines 86-134).                                       *)

\* as EffectiveRainfall, without the clamp at 0
EffectiveRainfallUnclamped(avg, ff) == Sub(avg, ff)

EffectiveRainfall(avg, ff) == PyMax(Sub(avg, ff), Num(0))

Potential(a, coeff, eff_rain) == DivInt(Mul(Mul(a, coeff), eff_rain), 1000)

\* as Harvestable, the efficiency not applied
HarvestableNoLoss(pot, eff_pct) == pot

Harvestable(pot, eff_pct) == Mul(pot, Frac(eff_pct, 100))

HarvestableLitres(h) == Mul(h, Num(1000))

FeasibleThreshold == 5

\* as Feasible, the threshold itself feasible
FeasibleInclusive(h) == ~IsNaN(h) /\ ~Gt(Num(FeasibleThreshold), h)

Feasible(h) == Gt(h, Num(FeasibleThreshold))

recommended_structures == <<"Recharge Pit", "Recharge Trench", "Recharge Shaft">>

\* as Capacity, the pit's cross-section not squared
CapacityPitLinear(st, d) ==
    IF st = "Recharge Pit"
    THEN [coef |-> Mul(d.width, d.depth), pi |-> 0]
    ELSE IF st = "Recharge Trench"
    THEN [coef |-> Mul(Mul(d.length, d.width), d.depth), pi |-> 0]
    ELSE [coef |-> Mul(Mul(d.radius, d.radius), d.depth), pi |-> 1]

\* as Capacity, a dimension that is not positive replaced by the least one
\* the number inputs accept
CapacityClamped(st, d) ==
    LET least == Frac(1, 10)
        e     == [f \in DOMAIN d |-> IF Gt(d[f], Num(0)) THEN d[f] ELSE least]
    IN  IF st = "Recharge Pit"
        THEN [coef |-> Mul(Mul(e.width, e.width), e.depth), pi |-> 0]
        ELSE IF st = "Recharge Trench"
        THEN [coef |-> Mul(Mul(e.length, e.width), e.depth), pi |-> 0]
        ELSE [coef |-> Mul(Mul(e.radius, e.radius), e.depth), pi |-> 1]

Capacity(st, d) ==
    IF st = "Recharge Pit"
    THEN [coef |-> Mul(Mul(d.width, d.width), d.depth), pi |-> 0]
    ELSE IF st = "Recharge Trench"
    THEN [coef |-> Mul(Mul(d.length, d.width), d.depth), pi |-> 0]
    ELSE [coef |-> Mul(Mul(d.radius, d.radius), d.depth), pi |-> 1]

aquifer_info ==
    ("ANDAMAN & NICOBAR ISLANDS" :> "Principal Aquifer: Sandstone")
    @@ ("WEST BENGAL" :> "Principal Aquifer: Alluvial deposits")

groundwater_depth ==
    ("ANDAMAN & NICOBAR ISLANDS" :> 10) @@ ("WEST BENGAL" :> 7)

\* as AquiferLine, the key never found
AquiferLineMiss(region) == "Data not available"

\* aquifer_info.get(city, 'Data not available')
AquiferLine(region) ==
    IF region \in DOMAIN aquifer_info THEN aquifer_info[region]
    ELSE "Data not available"

\* groundwater_depth.get(city, None): {} is None
DepthGw(region) ==
    IF region \in DOMAIN groundwater_depth THEN {groundwater_depth[region]}
    ELSE {}

\* if depth_gw: ... else: ...  (None and 0 are both false)
GroundwaterLine(gw) ==
    IF gw # {} /\ gw # {0}
    THEN [text |-> "Depth to groundwater level", meters |-> gw]
    ELSE [text |-> "Groundwater data not available", meters |-> {}]

cost_estimate_per_m3 == 1000

government_subsidy_pct == 30

Cost(h) == Mul(h, Num(cost_estimate_per_m3))

\* as Subsidy, the percentage not divided by 100
SubsidyPercent(gross) == Mul(Num(government_subsidy_pct), gross)

Subsidy(gross) == Mul(Frac(government_subsidy_pct, 100), gross)

NetCost(gross, sub) == Sub(gross, sub)

----------------------------------------------------------------------------
(* The widgets (lines 51, 69-84, 102-116): the value each shows when first *)
(* rendered, and samples of the values it can be set to, the ends of its   *)
(* range included.  The ...Values sets are used where one part of the      *)
(* script is exercised, the smaller ...Sample sets where the whole is.     *)

AreaDefault == Num(100)

AreaValues == {Num(10), Num(50), Num(100)}       \* min_value=10.0

AreaSample == {Num(10), Num(100)}

SurfaceTypes == {"Rooftop", "Paved", "Pervious"}

default_c ==
    ("Rooftop" :> Frac(85, 100)) @@ ("Paved" :> Frac(7, 10))
    @@ ("Pervious" :> Frac(4, 10))

CValues == {Frac(1, 10), Frac(1, 2), Num(1)}     \* slider 0.1 .. 1.0

CSample == {Num(1)}

FirstFlushDefault == Num(2)

FirstFlushValues == {Num(0), Num(2), Num(500), Num(1000), Num(2000)}  \* min_value=0.0

FirstFlushSample == {Num(0), Num(1000)}

EfficiencyDefault == 90

EfficiencyValues == {50, 75, 90, 100}            \* slider 50 .. 100

EfficiencySample == {50}

StructureTypes == {recommended_structures[i] : i \in 1..Len(recommended_structures)}

DimValues == {Frac(1, 10), Frac(1, 2), Num(1), Num(2), Num(3)}   \* min_value=0.1

DimSample == {Num(2)}

DimNames == {"length", "width", "depth", "radius"}

\* the number inputs rendered for a structure type, at their value=
DefaultDims(st) ==
    IF st = "Recharge Pit" THEN [width |-> Num(1), depth |-> Num(2)]
    ELSE IF st = "Recharge Trench"
    THEN [length |-> Num(5), width |-> Num(1), depth |-> Num(1)]
    ELSE [radius |-> Frac(1, 2), depth |-> Num(3)]

----------------------------------------------------------------------------
(* One run of the script, from the widgets' values to its globals.         *)

Script(rows, ct, a, coeff, ff, eff_pct, st, d) ==
    LET city_data == CityData(rows, ct)
        recent    == RecentYears(city_data)
        avg       == ColumnMean(recent, "ANNUAL")
        eff_rain  == EffectiveRainfall(avg, ff)
        pot       == Potential(a, coeff, eff_rain)
        harv      == Harvestable(pot, eff_pct)
        gross     == Cost(harv)
        sub       == Subsidy(gross)
        gw        == DepthGw(ct)
    IN  [ recent_years          |-> recent,
          avg_annual_rainfall   |-> avg,
          avg_seasonal_rainfall |-> [k \in Seasons |-> ColumnMean(recent, k)],
          effective_rainfall    |-> eff_rain,
          potential             |-> pot,
          harvestable           |-> harv,
          harvestable_litres    |-> HarvestableLitres(harv),
          feasible              |-> Feasible(harv),
          capacity              |-> Capacity(st, d),
          aquifer_line          |-> AquiferLine(ct),
          depth_gw              |-> gw,
          groundwater_line      |-> GroundwaterLine(gw),
          cost                  |-> gross,
          subsidy               |-> sub,
          net_cost              |-> NetCost(gross, sub) ]

\* export_pdf: the values the report is written from
export_pdf(ct, st, g) ==
    [ city                |-> ct,
      avg_annual_rainfall |-> g.avg_annual_rainfall,
      harvestable         |-> g.harvestable,
      feasible            |-> g.feasible,
      structure_type      |-> st,
      capacity            |-> g.capacity,
      cost                |-> g.cost,
      subsidy             |-> g.subsidy,
      net_cost            |-> g.net_cost ]

\* as RunScript, the region read before the selection is stored: the
\* statistic is that of the region shown before
RunScriptStale ==
    /\ df' = df
    /\ globals' = Script(df', city, area', c', first_flush', efficiency',
                         structure_type', dims')
    /\ error' = "None"

\* the script runs top to bottom on the widgets' new values, in a fresh
\* namespace; no statement of it raises
RunScript ==
    /\ df' = df
    /\ globals' = Script(df', city', area', c', first_flush', efficiency',
                         structure_type', dims')
    /\ error' = "None"

\* a run in which the export button is not the widget touched
Rerun ==
    /\ RunScript
    /\ report' = {}

\* the first run of a session over the loaded rows: every widget at its default
Start(rows) ==
    /\ df = rows
    /\ city = Unique(rows)[1]
    /\ area = AreaDefault
    /\ surface_type = "Rooftop"
    /\ c = default_c["Rooftop"]
    /\ first_flush = FirstFlushDefault
    /\ efficiency = EfficiencyDefault
    /\ structure_type = recommended_structures[1]
    /\ dims = DefaultDims(recommended_structures[1])
    /\ globals = Script(rows, city, area, c, first_flush, efficiency,
                        structure_type, dims)
    /\ report = {}
    /\ error = "None"

Init == Start(load_rainfall_data(SampleYears))

SelectCity(r) ==
    /\ city' = r
    /\ UNCHANGED <<area, surface_type, c, first_flush, efficiency,
                   structure_type, dims>>
    /\ Rerun

SetArea(a) ==
    /\ area' = a
    /\ UNCHANGED <<city, surface_type, c, first_flush, efficiency,
                   structure_type, dims>>
    /\ Rerun

\* the slider is rendered anew at the surface type's coefficient
SelectSurface(s) ==
    /\ surface_type' = s
    /\ c' = default_c[s]
    /\ UNCHANGED <<city, area, first_flush, efficiency, structure_type, dims>>
    /\ Rerun

SlideC(v) ==
    /\ c' = v
    /\ UNCHANGED <<city, area, surface_type, first_flush, efficiency,
                   structure_type, dims>>
    /\ Rerun

SetFirstFlush(f) ==
    /\ first_flush' = f
    /\ UNCHANGED <<city, area, surface_type, c, efficiency, structure_type, dims>>
    /\ Rerun

SlideEfficiency(e) ==
    /\ efficiency' = e
    /\ UNCHANGED <<city, area, surface_type, c, first_flush, structure_type, dims>>
    /\ Rerun

\* the other type's number inputs are rendered, at their value=
SelectStructure(st) ==
    /\ st # structure_type
    /\ structure_type' = st
    /\ dims' = DefaultDims(st)
    /\ UNCHANGED <<city, area, surface_type, c, first_flush, efficiency>>
    /\ Rerun

SetDimension(f, v) ==
    /\ f \in DOMAIN dims
    /\ dims' = [dims EXCEPT ![f] = v]
    /\ UNCHANGED <<city, area, surface_type, c, first_flush, efficiency,
                   structure_type>>
    /\ Rerun

\* "Save / Export Report as PDF": the script runs with the button set
ClickExport ==
    /\ UNCHANGED inputs
    /\ RunScript
    /\ report' = {export_pdf(city', structure_type', globals')}

PickCity ==
    LET options == Unique(df)
    IN  \E i \in 1..Len(options) : SelectCity(options[i])

HarvestInputs(A, C, F, E) ==
    \/ PickCity
    \/ \E a \in A : SetArea(a)
    \/ \E s \in SurfaceTypes : SelectSurface(s)
    \/ \E v \in C : SlideC(v)
    \/ \E f \in F : SetFirstFlush(f)
    \/ \E e \in E : SlideEfficiency(e)

StructureInputs(D) ==
    \/ \E st \in StructureTypes : SelectStructure(st)
    \/ \E f \in DimNames : \E v \in D : SetDimension(f, v)

\* the whole program
Next ==
    \/ HarvestInputs(AreaSample, CSample, FirstFlushSample, EfficiencySample)
    \/ StructureInputs(DimSample)
    \/ ClickExport

Spec == Init /\ [][Next]_vars

\* the widgets' bounds: what a session can hand to the calculations
WidgetsInDomain ==
    /\ area[1] >= 10 * area[2]
    /\ 10 * c[1] >= c[2] /\ c[1] <= c[2]
    /\ first_flush[1] >= 0
    /\ efficiency \in 50 .. 100
    /\ \A f \in DOMAIN dims : 10 * dims[f][1] >= dims[f][2]

\* the harvest calculation, feasibility and cost over the wider samples
NextHarvest ==
    HarvestInputs(AreaValues, CValues, FirstFlushValues, EfficiencyValues)

SpecHarvest == Init /\ [][NextHarvest]_vars

\* the structure sizing over the wider samples
NextStructure == StructureInputs(DimValues)

SpecStructure == Init /\ [][NextStructure]_vars

\* the region statistic over every file the varied region can have
InitRegion ==
    \E ys \in (SUBSET (YearLo .. YearHi)) \ {{}} : Start(load_rainfall_data(ys))

NextRegion == PickCity

SpecRegion == InitRegion /\ [][NextRegion]_vars

\* the calculations called with arguments of any sign and size, the
\* widgets' bounds bypassed
AreaArgs == {Num(-10), Num(0), Num(100)}

CArgs == {Frac(-1, 10), Num(0), Frac(85, 100), Frac(3, 2)}

DimArgs == {Num(-1), Num(0), Num(2)}

DimArgsOf(st) == [DOMAIN DefaultDims(st) -> DimArgs]

CallHarvest(a, coeff) ==
    /\ area' = a
    /\ c' = coeff
    /\ UNCHANGED <<city, surface_type, first_flush, efficiency, structure_type, dims>>
    /\ Rerun

CallCapacity(st, d) ==
    /\ structure_type' = st
    /\ dims' = d
    /\ UNCHANGED <<city, area, surface_type, c, first_flush, efficiency>>
    /\ Rerun

NextCalc ==
    \/ \E a \in AreaArgs : \E coeff \in CArgs : CallHarvest(a, coeff)
    \/ \E st \in StructureTypes : \E d \in DimArgsOf(st) : CallCapacity(st, d)

SpecCalc == Init /\ [][NextCalc]_vars

----------------------------------------------------------------------------
(* The claims.  Each is written from the widgets' values and the rows of   *)
(* the dataset, in integer arithmetic on numerators and denominators.      *)

\* a <= b, for fractions that are not NaN
Le(a, b) == a[1] * b[2] <= b[1] * a[2]

Lt(a, b) == a[1] * b[2] < b[1] * a[2]

\* C1: for rainfall R >= 0 and first flush F >= 0 the effective rainfall is
\* max(R - F, 0): never negative, R - F when F < R, 0 when F >= R.
C1_EffectiveRainfall ==
    LET R == globals.avg_annual_rainfall
        F == first_flush
        E == globals.effective_rainfall
    IN  (~IsNaN(R) /\ R[1] >= 0 /\ F[1] >= 0) =>
            /\ ~IsNaN(E)
            /\ E[1] >= 0
            /\ Lt(F, R) => E = Norm(R[1] * F[2] - F[1] * R[2], R[2] * F[2])
            /\ Le(R, F) => E = <<0, 1>>

\* a run with a first flush no smaller than a positive rainfall
C1_Witness ==
    /\ ~IsNaN(globals.avg_annual_rainfall)
    /\ globals.avg_annual_rainfall[1] > 0
    /\ Le(globals.avg_annual_rainfall, first_flush)
    /\ globals.effective_rainfall = <<0, 1>>

\* C2: harvestable m3 = A * C * E / 1000 * efficiency / 100, and the litres
\* are 1000 times the m3; A=100, C=0.85, E=998, efficiency=90 give 76.347 m3
\* and 76,347 litres.
C2_Harvestable ==
    LET E == globals.effective_rainfall
        H == globals.harvestable
        L == globals.harvestable_litres
    IN  ~IsNaN(E) =>
            /\ H = Norm(area[1] * c[1] * E[1] * efficiency,
                        area[2] * c[2] * E[2] * 100000)
            /\ ~IsNaN(L)
            /\ H = Norm(L[1], L[2] * 1000)
            /\ (area = <<100, 1>> /\ c = <<17, 20>> /\ E = <<998, 1>> /\ efficiency = 90)
                  => (H = <<76347, 1000>> /\ L = <<76347, 1>>)

\* the run of the example
C2_Witness ==
    /\ area = <<100, 1>> /\ c = <<17, 20>> /\ efficiency = 90
    /\ globals.effective_rainfall = <<998, 1>>
    /\ globals.harvestable_litres = <<76347, 1>>

\* C3: the feasibility flag is true exactly when the harvestable volume is
\* strictly above 5 m3.
C3_Feasible ==
    LET H == globals.harvestable
    IN  globals.feasible <=> (~IsNaN(H) /\ H[1] > 5 * H[2])

\* a run whose harvestable volume is exactly 5 m3, flagged not feasible
C3_Witness == globals.harvestable = <<5, 1>> /\ ~globals.feasible

\* C4: gross = harvestable * unit cost, subsidy = gross * pct / 100,
\* net = gross - subsidy, unrounded, so net + subsidy = gross; 76.347 m3
\* gives 76,347, 22,904.1 and 53,442.9.
C4_Cost ==
    LET H == globals.harvestable
        G == globals.cost
        S == globals.subsidy
        N == globals.net_cost
    IN  ~IsNaN(H) =>
            /\ ~IsNaN(G) /\ ~IsNaN(S) /\ ~IsNaN(N)
            /\ H = Norm(G[1], G[2] * cost_estimate_per_m3)
            /\ S[1] * G[2] * 100 = G[1] * government_subsidy_pct * S[2]
            /\ N[1] * G[2] * S[2] = (G[1] * S[2] - S[1] * G[2]) * N[2]
            /\ Add(N, S) = G
            /\ H = <<76347, 1000>> =>
                  (G = <<76347, 1>> /\ S = <<229041, 10>> /\ N = <<534429, 10>>)

\* the run of the example
C4_Witness ==
    /\ globals.harvestable = <<76347, 1000>>
    /\ globals.cost = <<76347, 1>>
    /\ globals.net_cost = <<534429, 10>>

\* the rows of the dataset that belong to the selected region, by index
CityRows == {i \in 1..Len(df) : df[i]["SUBDIVISION"] = city}

CityYears == {df[i]["YEAR"] : i \in CityRows}

NewestYear == CHOOSE y \in CityYears : \A z \in CityYears : z <= y

OldestYear == CHOOSE y \in CityYears : \A z \in CityYears : y <= z

\* the region's rows of the ten calendar years ending at its newest
DecadeRows ==
    LET newest == NewestYear
    IN  {i \in CityRows : df[i]["YEAR"] >= newest - 9 /\ df[i]["YEAR"] <= newest}

AveragedRows == {globals.recent_years[j] : j \in 1..Len(globals.recent_years)}

AveragedYears == {r["YEAR"] : r \in AveragedRows}

\* the sum and the number of the cells of a column that are not NaN, over rows of df
RECURSIVE CellSum(_, _)
CellSum(I, col) ==
    IF I = {} THEN <<0, 1>>
    ELSE LET i == CHOOSE j \in I : TRUE
             x == df[i][col]
         IN  IF IsNaN(x) THEN CellSum(I \ {i}, col) ELSE Add(x, CellSum(I \ {i}, col))

CellCount(I, col) == Cardinality({i \in I : ~IsNaN(df[i][col])})

MeanOver(I, col) ==
    LET n == CellCount(I, col)
        t == CellSum(I, col)
    IN  IF n = 0 THEN NaN ELSE Norm(t[1], t[2] * n)

\* the rows averaged are exactly the region's rows of the ten calendar years
\* ending at its newest year, each once, and the annual average is the mean
\* of their annual cells
C5_Window ==
    LET decade == DecadeRows
    IN  /\ AveragedRows = {df[i] : i \in decade}
        /\ Len(globals.recent_years) = Cardinality(decade)
        /\ globals.avg_annual_rainfall = MeanOver(decade, "ANNUAL")

\* C5 as stated: the window, and every row of a region with fewer than 10
\* years of rows is averaged.
C5_Original ==
    /\ C5_Window
    /\ Cardinality(CityYears) < 10 => Len(globals.recent_years) = Cardinality(CityRows)

\* C5, amended: the rows averaged are the region's rows with year in
\* [newest - 9, newest]; when all of the region's rows lie within ten calendar
\* years (newest - oldest <= 9, as 2010..2015) all of them are averaged, and
\* the average is their mean, no row added.
C5_WindowOrAll ==
    /\ C5_Window
    /\ NewestYear - OldestYear <= 9 =>
          /\ Len(globals.recent_years) = Cardinality(CityRows)
          /\ globals.avg_annual_rainfall = MeanOver(CityRows, "ANNUAL")

\* the region with rows for 2010..2015 only: its six rows are averaged
C5_Witness ==
    /\ city = "KERALA"
    /\ CityYears = 2010 .. 2015
    /\ Len(globals.recent_years) = 6
    /\ ~IsNaN(globals.avg_annual_rainfall)

\* C6 as stated: a region with at least 10 distinct years is averaged over
\* its 10 most recent distinct years.
C6_Original ==
    Cardinality(CityYears) >= 10 => AveragedYears = NewestOf(CityYears, 10)

\* C6, amended: a region with at least 10 distinct years is averaged over
\* its rows of the last ten calendar years; these are its 10 most recent
\* distinct years exactly when no year of that decade is missing, and fewer
\* years otherwise; the annual mean and every seasonal mean are taken over
\* that same set of rows.
C6_LastDecade ==
    LET years  == CityYears
        newest == NewestYear
        decade == DecadeRows
        top    == NewestOf(years, 10)
        used   == AveragedYears
    IN  Cardinality(years) >= 10 =>
            /\ used = {y \in years : y >= newest - 9}
            /\ used \subseteq top
            /\ (used = top) <=> (\A y \in (newest - 9) .. newest : y \in years)
            /\ globals.avg_annual_rainfall = MeanOver(decade, "ANNUAL")
            /\ \A k \in Seasons :
                  globals.avg_seasonal_rainfall[k] = MeanOver(decade, k)

\* a region with ten distinct years, one of the last decade missing: nine
\* years are averaged
C6_Witness ==
    /\ Cardinality(CityYears) >= 10
    /\ \E y \in (NewestYear - 9) .. NewestYear : y \notin CityYears
    /\ Cardinality(AveragedYears) = 9

\* C7: one capacity per structure type: width * width * depth for a pit,
\* length * width * depth for a trench, pi * radius * radius * depth for a
\* shaft; it grows strictly with each dimension, the others fixed.
C7_Capacity ==
    LET cap == globals.capacity
        P(x, y, z) == Norm(x[1] * y[1] * z[1], x[2] * y[2] * z[2])
    IN  /\ structure_type \in StructureTypes
        /\ structure_type = "Recharge Pit" =>
              cap = [coef |-> P(dims.width, dims.width, dims.depth), pi |-> 0]
        /\ structure_type = "Recharge Trench" =>
              cap = [coef |-> P(dims.length, dims.width, dims.depth), pi |-> 0]
        /\ structure_type = "Recharge Shaft" =>
              cap = [coef |-> P(dims.radius, dims.radius, dims.depth), pi |-> 1]
        /\ \A f \in DOMAIN dims : \A v \in DimValues :
              LET other == Capacity(structure_type, [dims EXCEPT ![f] = v])
              IN  /\ other.pi = cap.pi
                  /\ Lt(dims[f], v) => Lt(cap.coef, other.coef)
                  /\ Lt(v, dims[f]) => Lt(other.coef, cap.coef)

\* a shaft whose radius and depth were both set: pi * 2 * 2 * 1/2
C7_Witness ==
    /\ structure_type = "Recharge Shaft"
    /\ dims = [radius |-> <<2, 1>>, depth |-> <<1, 2>>]
    /\ globals.capacity = [coef |-> <<2, 1>>, pi |-> 1]

\* an argument outside the documented domain: a dimension that is not
\* positive, a negative area, a coefficient outside (0, 1]
OutOfDomain ==
    \/ \E f \in DOMAIN dims : dims[f][1] <= 0
    \/ area[1] < 0
    \/ c[1] <= 0
    \/ c[1] > c[2]

C9_Groundwater ==
    LET known == {"ANDAMAN & NICOBAR ISLANDS", "WEST BENGAL"}
        g     == globals
    IN  /\ error = "None"
        /\ city = "ANDAMAN & NICOBAR ISLANDS" =>
              /\ g.aquifer_line = "Principal Aquifer: Sandstone"
              /\ g.groundwater_line = [text |-> "Depth to groundwater level", meters |-> {10}]
        /\ city = "WEST BENGAL" =>
              /\ g.aquifer_line = "Principal Aquifer: Alluvial deposits"
              /\ g.groundwater_line = [text |-> "Depth to groundwater level", meters |-> {7}]
        /\ city \notin known =>
              /\ g.aquifer_line = "Data not available"
              /\ g.depth_gw = {}
              /\ g.groundwater_line = [text |-> "Groundwater data not available", meters |-> {}]
        /\ g.capacity.coef[1] > 0
        /\ ~IsNaN(g.avg_annual_rainfall) =>
              /\ ~IsNaN(g.harvestable)
              /\ g.harvestable = Norm(area[1] * c[1] * g.effective_rainfall[1] * efficiency,
                                      area[2] * c[2] * g.effective_rainfall[2] * 100000)
              /\ g.cost = Norm(g.harvestable[1] * cost_estimate_per_m3, g.harvestable[2])
              /\ Add(g.net_cost, g.subsidy) = g.cost

\* a region with an entry, one without: both with their results
C9_Witness ==
    /\ city = "WEST BENGAL"
    /\ globals.groundwater_line.meters = {7}
    /\ globals.aquifer_line = "Principal Aquifer: Alluvial deposits"
    /\ Gt(globals.cost, <<0, 1>>)

====
